---- MODULE Spec2Model ----
(***************************************************************************)
(* Model of hvac_tonnage_calculator.py: the prompt-driven main(),          *)
(* get_user_input(), calculate_cfm_from_room() and                         *)
(* calculate_cooling_load(), together with the part of psychrolib the      *)
(* program calls.                                                          *)
(*                                                                         *)
(* Python floats are modelled as decimal fixed-point numbers.  Every       *)
(* arithmetic statement of the source is one exact operation followed by   *)
(* rounding to the nearest grid value (ties to even), as IEEE arithmetic   *)
(* rounds to the nearest double.  The grids are:                           *)
(*   inputs (feet, ACH, degC, RH)   10^-2      area            10^-4 ft2   *)
(*   volume                         10^-2 ft3  cfm             10^-4 CFM   *)
(*   flow_m3s                       10^-9 m3/s humidity ratio  10^-7 kg/kg *)
(*   density                        10^-4      mass_flow       10^-9 kg/s  *)
(*   enthalpy                       1 J/kg     cooling_load_kw 10^-6 kW    *)
(*   cooling_load_btu               10^-3      water removal   10^-7 kg/hr *)
(*   pressure                       10^-1 Pa   specific volume 10^-6 m3/kg *)
(*                                                                         *)
(* Spec is one run of the script.  LibSpec is a process that imported the  *)
(* module and calls calculate_cooling_load several times.                  *)
(***************************************************************************)
EXTENDS Integers, Sequences, FiniteSets, TLC

VARIABLES
    pc,          \* position of the single thread of control
    caller,      \* "main": the script entry point; "lib": a caller that imported the module
    env,         \* locals of main / get_user_input (name -> value)
    loc,         \* locals of the running calculate_cooling_load (name -> value)
    psy_units,   \* psychrolib's global PSYCHROLIB_UNITS
    setCalls,    \* number of psychrolib.SetUnitSystem calls so far
    libCalls,    \* property-library calls of the current invocation
    invocations, \* number of calculate_cooling_load invocations started
    prompted,    \* the prompts issued so far, in order
    answers,     \* the text typed at each prompt
    out,         \* the records the logger has emitted
    exc,         \* the exception in flight (NoExc when none)
    hist         \* outcomes of the finished invocations (library caller only)

vars == <<pc, caller, env, loc, psy_units, setCalls, libCalls, invocations,
          prompted, answers, out, exc, hist>>

-----------------------------------------------------------------------------
(* Bounds of the model *)

\* invocations a library caller makes in one process
MaxCalls == 2

-----------------------------------------------------------------------------
(* Fixed-point arithmetic *)

Abs(x) == IF x < 0 THEN -x ELSE x

Sgn(x) == IF x < 0 THEN -1 ELSE IF x > 0 THEN 1 ELSE 0

\* <<q, r>> with a * d = q * c + r and 0 <= r < c, for 0 <= d < 2^10
MulSmallQR(a, d, c) == <<(a \div c) * d + ((a % c) * d) \div c, ((a % c) * d) % c>>

\* 2^10 times the number q * c + r, in the same form
ShiftQR(h, c) == <<h[1] * 1024 + (h[2] * 1024) \div c, (h[2] * 1024) % c>>

AddQR(g, h, c) == <<g[1] + h[1] + (g[2] + h[2]) \div c, (g[2] + h[2]) % c>>

\* <<q, r>> with a * b = q * c + r and 0 <= r < c, for naturals a, b < 2^30 and
\* 0 < c <= 2^20: b is taken ten bits at a time, so that no intermediate
\* value leaves the 32-bit integers although a * b does.
MulDivQR(a, b, c) ==
    LET h2 == MulSmallQR(a, b \div 1048576, c)
        h1 == AddQR(ShiftQR(h2, c), MulSmallQR(a, (b \div 1024) % 1024, c), c)
    IN  AddQR(ShiftQR(h1, c), MulSmallQR(a, b % 1024, c), c)

\* a * b / c rounded to the nearest integer, ties to even (0 < c <= 2^20)
MulDiv(a, b, c) ==
    LET qr == MulDivQR(Abs(a), Abs(b), c)
        up == 2 * qr[2] > c \/ (2 * qr[2] = c /\ qr[1] % 2 = 1)
    IN  Sgn(a) * Sgn(b) * (IF up THEN qr[1] + 1 ELSE qr[1])

\* a * b / 10^9 rounded to the nearest integer, ties to even (|b| < 10^6):
\* a = ah * 10^3 + al, and ah * b = q * 10^6 + r, so that
\* a * b = q * 10^9 + (r * 10^3 + al * b)
MulDivE9(a, b) ==
    LET qr  == MulDivQR(Abs(a) \div 1000, Abs(b), 10^6)
        num == qr[2] * 1000 + (Abs(a) % 1000) * Abs(b)
        q   == qr[1] + num \div 10^9
        r   == num % 10^9
        up  == r > 5 * 10^8 \/ (r = 5 * 10^8 /\ q % 2 = 1)
    IN  Sgn(a) * Sgn(b) * (IF up THEN q + 1 ELSE q)

Fun0 == [n \in {} |-> 0]

\* assignment to a local variable
Bind(f, name, v) == [n \in DOMAIN f \cup {name} |-> IF n = name THEN v ELSE f[n]]

NoExc == [type |-> "none", site |-> "none"]

Ok(v) == [ok |-> TRUE, val |-> v, err |-> "none"]

Err(type) == [ok |-> FALSE, val |-> 0, err |-> type]

Max(a, b) == IF a >= b THEN a ELSE b

-----------------------------------------------------------------------------
(* Console input: float(input(prompt) or default).  A typed line is a       *)
(* sequence of characters; float() accepts an optional sign, digits and an *)
(* optional decimal point, and raises ValueError on anything else.         *)

DigitVal ==
    [c \in {"0", "1", "2", "3", "4", "5", "6", "7", "8", "9"} |->
        CASE c = "0" -> 0 [] c = "1" -> 1 [] c = "2" -> 2 [] c = "3" -> 3
          [] c = "4" -> 4 [] c = "5" -> 5 [] c = "6" -> 6 [] c = "7" -> 7
          [] c = "8" -> 8 [] c = "9" -> 9]

IsDigits(s) == \A i \in 1..Len(s) : s[i] \in DOMAIN DigitVal

RECURSIVE DigitsValue(_)
DigitsValue(s) ==
    IF s = <<>> THEN 0
    ELSE 10 * DigitsValue(SubSeq(s, 1, Len(s) - 1)) + DigitVal[s[Len(s)]]

\* float(text): the value on the 10^-2 grid (digits past the second decimal
\* are below the grid and dropped), or ValueError.
ParseFloat(text) ==
    LET neg  == Len(text) > 0 /\ text[1] = "-"
        body == IF neg THEN Tail(text) ELSE text
        dots == {i \in 1..Len(body) : body[i] = "."}
        dot  == IF dots = {} THEN Len(body) + 1 ELSE CHOOSE i \in dots : \A j \in dots : i <= j
        ip   == SubSeq(body, 1, dot - 1)
        fp   == SubSeq(body, dot + 1, Len(body))
        fp2  == SubSeq(fp \o <<"0", "0">>, 1, 2)
        mag  == 100 * DigitsValue(ip) + DigitsValue(fp2)
    IN  IF IsDigits(ip) /\ IsDigits(fp) /\ Len(ip) + Len(fp) > 0
        THEN Ok(IF neg THEN -mag ELSE mag)
        ELSE Err("ValueError")

\* the defaults of the eight prompts, on the 10^-2 grid
DefaultOf ==
    [length |-> 2000, width |-> 1500, height |-> 800, ach |-> 400,
     t1 |-> 4300, rh1 |-> 85, t2 |-> 2500, rh2 |-> 55]

\* a variant that falls back to the default on a line float() rejects
InputFloat_Lenient(text, name) ==
    IF text = <<>> \/ ~ParseFloat(text).ok THEN Ok(DefaultOf[name]) ELSE ParseFloat(text)

\* float(input(...) or default): an empty line is falsy and selects the default
InputFloat(text, name) ==
    IF text = <<>> THEN Ok(DefaultOf[name]) ELSE ParseFloat(text)

\* the prompts in the order get_user_input issues them
PromptOrder == <<"length", "width", "height", "ach", "t1", "rh1", "t2", "rh2">>

-----------------------------------------------------------------------------
(* psychrolib, SI branch: the functions the program calls.  Each takes the *)
(* global unit system: with none set the library raises ValueError.        *)

\* standard atmospheric pressure passed at every call, in Pa
ATM_PA == 101325

\* saturation vapour pressure (10^-1 Pa) at the dry-bulb temperatures
\* (10^-2 degC) the model's inputs produce: exp() of the ASHRAE polynomial
SatVapPresTable == (2500 :> 31692) @@ (4300 :> 86492)

GetSatVapPres(units, TDryBulb) ==
    IF units # "SI" THEN Err("ValueError")
    ELSE IF TDryBulb < -10000 \/ TDryBulb > 20000 THEN Err("ValueError")
    ELSE Ok(SatVapPresTable[TDryBulb])

\* 0.621945 * VapPres / (Pressure - VapPres), at least MIN_HUM_RATIO = 1e-7
GetHumRatioFromVapPres(VapPres, Pressure) ==
    IF VapPres < 0 THEN Err("ValueError")
    ELSE IF Pressure = VapPres THEN Err("ZeroDivisionError")
    ELSE IF Pressure < VapPres THEN Ok(1)
    ELSE Ok(Max(MulDiv(6219450, VapPres, Pressure - VapPres), 1))

GetHumRatioFromRelHum(units, TDryBulb, RelHum, Pressure) ==
    IF RelHum < 0 \/ RelHum > 100 THEN Err("ValueError")
    ELSE LET ps == GetSatVapPres(units, TDryBulb)
         IN  IF ~ps.ok THEN ps
             ELSE GetHumRatioFromVapPres(MulDiv(RelHum, ps.val, 100), 10 * Pressure)

\* R_DA_SI * (T + 273.15) * (1 + 1.607858 * W) / P, on the 10^-6 m3/kg grid
GetMoistAirVolume(TDryBulb, HumRatio, Pressure) ==
    MulDiv(MulDiv(287042, TDryBulb + 27315, 10^5),
           10^7 + MulDiv(HumRatio, 1607858, 10^6),
           10 * Pressure)

\* (1 + W) / GetMoistAirVolume(T, W, P)
GetMoistAirDensity(units, TDryBulb, HumRatio, Pressure) ==
    IF units # "SI" \/ HumRatio < 0 THEN Err("ValueError")
    ELSE Ok(MulDiv(10^7 + Max(HumRatio, 1), 1000,
                   GetMoistAirVolume(TDryBulb, Max(HumRatio, 1), Pressure)))

\* (1.006 * T + W * (2501 + 1.86 * T)) * 1000
GetMoistAirEnthalpy(units, TDryBulb, HumRatio) ==
    IF units # "SI" \/ HumRatio < 0 THEN Err("ValueError")
    ELSE Ok(MulDiv(1006, TDryBulb, 100)
            + MulDiv(Max(HumRatio, 1), 250100 + MulDiv(186, TDryBulb, 100), 10^6))

-----------------------------------------------------------------------------
(* The arithmetic of the program *)

\* a variant that converts per hour to per second
calculate_cfm_per_second(volume_ft3, ach) == MulDiv(volume_ft3, ach, 3600)

\* calculate_cfm_from_room: (volume_ft3 * ach) / 60
calculate_cfm_from_room(volume_ft3, ach) == MulDiv(volume_ft3, ach, 60)

\* flow_cfm * 0.000471947
FlowM3s(flow_cfm) == MulDiv(flow_cfm, 471947, 10^4)

\* flow_m3s * density
MassFlow(flow_m3s, density) == MulDiv(flow_m3s, density, 10^4)

\* variants of the load formula: the enthalpies added, the difference
\* reversed, the difference taken in magnitude
CoolingLoadKw_Sum(mass_flow, h1, h2) == MulDiv(mass_flow, h1 + h2, 10^6)

CoolingLoadKw_Reversed(mass_flow, h1, h2) == MulDiv(mass_flow, h2 - h1, 10^6)

CoolingLoadKw_Abs(mass_flow, h1, h2) == MulDiv(mass_flow, Abs(h1 - h2), 10^6)

\* mass_flow * (h1 - h2) / 1000
CoolingLoadKw(mass_flow, h1, h2) == MulDiv(mass_flow, h1 - h2, 10^6)

\* cooling_load_kw * 3412.142
CoolingLoadBtu(cooling_load_kw) == MulDiv(cooling_load_kw, 3412142, 10^6)

\* mass_flow * (w1 - w2), then * 3600
WaterRemovalKgHr(mass_flow, w1, w2) == MulDivE9(mass_flow, w1 - w2) * 3600

\* a variant that truncates, as int(x) does
PyRound_Truncate(cooling_load_btu) == Sgn(cooling_load_btu) * (Abs(cooling_load_btu) \div 1000)

\* round(x): the nearest integer, ties to even
PyRound(cooling_load_btu) == MulDiv(cooling_load_btu, 1, 1000)

\* f"{n / d:.k f}" with scale = 10^k: the decimal nearest to the quotient.  At
\* an exact decimal tie the digit printed depends on the binary double
\* nearest to the quotient, which may lie on either side: both are admitted.
FormatFixed(n, d, scale) ==
    LET qr == MulDivQR(Abs(n), scale, d)
        lo == IF 2 * qr[2] > d THEN qr[1] + 1 ELSE qr[1]
    IN  {Sgn(n) * m : m \in IF 2 * qr[2] = d THEN {qr[1], qr[1] + 1} ELSE {lo}}

-----------------------------------------------------------------------------
(* Logging *)

\* main: DEBUG_MODE = True
DEBUG_MODE == TRUE

\* logger.<level>(...) on a logger set up by setup_logger(DEBUG_MODE): a DEBUG
\* record is emitted only when the logger's level is DEBUG
EmitTo(log, level, tag, val) ==
    IF level = "DEBUG" /\ ~DEBUG_MODE THEN log
    ELSE Append(log, [level |-> level, tag |-> tag, val |-> val, msg |-> ""])

Tags(log) == {log[i].tag : i \in 1..Len(log)}

\* one ton of cooling, in BTU/hr
BTU_PER_TON == 12000

-----------------------------------------------------------------------------
(* The lines a user may type at each prompt, and the arguments a library   *)
(* caller may pass.                                                        *)

Texts ==
    [length |-> {<<>>, <<"1">>, <<"-", "1">>, <<"a", "b", "c">>},
     width  |-> {<<>>, <<"1">>, <<"1", ".", "5", ".">>},
     height |-> {<<>>, <<"1">>, <<"-">>},
     ach    |-> {<<>>, <<"0">>, <<"0", ".", "1">>, <<"f", "o", "u", "r">>},
     t1     |-> {<<>>, <<"2", "5">>, <<"h", "o", "t">>},
     rh1    |-> {<<>>, <<"0", ".", "5", "5">>, <<"1", ".", "5">>, <<"8", "5", "%">>},
     t2     |-> {<<>>, <<"4", "3">>, <<"2", "5", "C">>},
     rh2    |-> {<<>>, <<"0", ".", "8", "5">>, <<"1", ".", "5">>, <<".">>}]

\* flow rates (10^-4 CFM) and air states <<T, RH>> of a library caller
LibFlows == {1600000, 40000}

LibStates == {<<4300, 85>>, <<2500, 55>>, <<2500, 150>>}

LibFns == {"HumRatio1", "Density1", "Enthalpy1", "HumRatio2", "Enthalpy2"}

-----------------------------------------------------------------------------
(* Initial states *)

InitCommon ==
    /\ env = Fun0
    /\ loc = Fun0
    /\ psy_units = "None"
    /\ setCalls = 0
    /\ libCalls = [f \in LibFns |-> 0]
    /\ invocations = 0
    /\ prompted = <<>>
    /\ answers = <<>>
    /\ out = <<>>
    /\ exc = NoExc
    /\ hist = <<>>

\* python hvac_tonnage_calculator.py
Init == pc = "start" /\ caller = "main" /\ InitCommon

\* import hvac_tonnage_calculator
LibInit == pc = "idle" /\ caller = "lib" /\ InitCommon

-----------------------------------------------------------------------------
(* main and get_user_input *)

\* setup_logger(DEBUG_MODE); get_user_input starts
Start ==
    /\ pc = "start"
    /\ pc' = "ask_length"
    /\ out' = EmitTo(out, "INFO", "enter_room", 0)
    /\ UNCHANGED <<caller, env, loc, psy_units, setCalls, libCalls, invocations,
                   prompted, answers, exc, hist>>

\* name = float(input(prompt) or default)
Ask(at, name, next) ==
    /\ pc = at
    /\ \E text \in Texts[name] :
        /\ prompted' = Append(prompted, name)
        /\ answers' = Append(answers, text)
        /\ LET r == InputFloat(text, name)
           IN  IF r.ok
               THEN env' = Bind(env, name, r.val) /\ pc' = next /\ exc' = exc
               ELSE env' = env /\ pc' = "except"
                    /\ exc' = [type |-> r.err, site |-> "float"]
    /\ UNCHANGED <<caller, loc, psy_units, setCalls, libCalls, invocations, out, hist>>

AskLength == Ask("ask_length", "length", "ask_width")

AskWidth == Ask("ask_width", "width", "log_area")

\* logger.info(f"Room area = {length*width} sqft")
LogArea ==
    /\ pc = "log_area"
    /\ out' = EmitTo(out, "INFO", "area", env["length"] * env["width"])
    /\ pc' = "ask_height"
    /\ UNCHANGED <<caller, env, loc, psy_units, setCalls, libCalls, invocations,
                   prompted, answers, exc, hist>>

AskHeight == Ask("ask_height", "height", "ask_ach")

AskAch == Ask("ask_ach", "ach", "compute_cfm")

\* volume = length * width * height; cfm = calculate_cfm_from_room(volume, ach)
ComputeCfm ==
    /\ pc = "compute_cfm"
    /\ LET volume == MulDiv(env["length"] * env["width"], env["height"], 10^4)
       IN  env' = Bind(Bind(env, "volume", volume), "cfm",
                       calculate_cfm_from_room(volume, env["ach"]))
    /\ out' = EmitTo(out, "INFO", "enter_temp", 0)
    /\ pc' = "ask_t1"
    /\ UNCHANGED <<caller, loc, psy_units, setCalls, libCalls, invocations,
                   prompted, answers, exc, hist>>

AskT1 == Ask("ask_t1", "t1", "ask_rh1")

AskRh1 == Ask("ask_rh1", "rh1", "ask_t2")

AskT2 == Ask("ask_t2", "t2", "ask_rh2")

AskRh2 == Ask("ask_rh2", "rh2", "report")

\* a variant of the report that emits nothing
MainReport_Silent ==
    /\ pc = "report"
    /\ pc' = "call"
    /\ UNCHANGED <<caller, env, loc, psy_units, setCalls, libCalls, invocations,
                   prompted, answers, out, exc, hist>>

\* main: the room and airflow information
MainReport ==
    /\ pc = "report"
    /\ \E v \in FormatFixed(env["volume"], 100, 1), c \in FormatFixed(env["cfm"], 10^4, 10) :
        out' = EmitTo(EmitTo(EmitTo(out, "INFO", "volume", v),
                             "INFO", "ach", env["ach"]),
                      "INFO", "cfm", c)
    /\ pc' = "call"
    /\ UNCHANGED <<caller, env, loc, psy_units, setCalls, libCalls, invocations,
                   prompted, answers, exc, hist>>

\* the arguments bound on entry to calculate_cooling_load
Enter(flow_cfm, t1, rh1, t2, rh2) ==
    /\ loc' = [n \in {"flow_cfm", "t1", "rh1", "t2", "rh2"} |->
                 CASE n = "flow_cfm" -> flow_cfm [] n = "t1" -> t1 [] n = "rh1" -> rh1
                   [] n = "t2" -> t2 [] n = "rh2" -> rh2]
    /\ invocations' = invocations + 1
    /\ libCalls' = [f \in LibFns |-> 0]
    /\ pc' = "set_units"

\* main: load = calculate_cooling_load(flow_cfm=cfm, t1=t1, ...)
MainCall ==
    /\ pc = "call"
    /\ Enter(env["cfm"], env["t1"], env["rh1"], env["t2"], env["rh2"])
    /\ UNCHANGED <<caller, env, psy_units, setCalls, prompted, answers, out, exc, hist>>

\* main: the total load and the tons
MainLogLoad ==
    /\ pc = "returned" /\ caller = "main"
    /\ env' = Bind(env, "load", loc["result"])
    /\ \E tons \in FormatFixed(loc["result"], BTU_PER_TON, 10) :
        out' = EmitTo(EmitTo(out, "INFO", "load", loc["result"]), "INFO", "tons", tons)
    /\ pc' = "done"
    /\ UNCHANGED <<caller, loc, psy_units, setCalls, libCalls, invocations,
                   prompted, answers, exc, hist>>

\* main: except Exception as e: logger.error(...); raise
MainExcept ==
    /\ pc = "except" /\ caller = "main"
    /\ out' = Append(out, [level |-> "ERROR", tag |-> "error", val |-> 0, msg |-> exc.site])
    /\ pc' = "raised"
    /\ UNCHANGED <<caller, env, loc, psy_units, setCalls, libCalls, invocations,
                   prompted, answers, exc, hist>>

-----------------------------------------------------------------------------
(* calculate_cooling_load, statement by statement *)

\* a variant in which the call is missing
SetUnitSystemStep_Skipped ==
    /\ pc = "set_units"
    /\ pc' = "flow"
    /\ UNCHANGED <<caller, env, loc, psy_units, setCalls, libCalls, invocations,
                   prompted, answers, out, exc, hist>>

\* a variant that calls the library only while no unit system is set
SetUnitSystemStep_Once ==
    /\ pc = "set_units"
    /\ psy_units' = "SI"
    /\ setCalls' = IF psy_units = "SI" THEN setCalls ELSE setCalls + 1
    /\ pc' = "flow"
    /\ UNCHANGED <<caller, env, loc, libCalls, invocations, prompted, answers, out,
                   exc, hist>>

\* psychrolib.SetUnitSystem(psychrolib.SI)
SetUnitSystemStep ==
    /\ pc = "set_units"
    /\ psy_units' = "SI"
    /\ setCalls' = setCalls + 1
    /\ pc' = "flow"
    /\ UNCHANGED <<caller, env, loc, libCalls, invocations, prompted, answers, out,
                   exc, hist>>

\* flow_m3s = flow_cfm * 0.000471947
FlowStep ==
    /\ pc = "flow"
    /\ LET flow_m3s == FlowM3s(loc["flow_cfm"])
       IN  /\ loc' = Bind(loc, "flow_m3s", flow_m3s)
           /\ out' = EmitTo(out, "DEBUG", "flow_m3s", flow_m3s)
    /\ pc' = "hum1"
    /\ UNCHANGED <<caller, env, psy_units, setCalls, libCalls, invocations, prompted,
                   answers, exc, hist>>

\* a variant that recovers from a library failure with the least humidity
\* ratio and goes on
LibCall_Recover(at, fn, r, name, next) ==
    /\ pc = at
    /\ libCalls' = [libCalls EXCEPT ![fn] = @ + 1]
    /\ loc' = Bind(loc, name, IF r.ok THEN r.val ELSE 1)
    /\ pc' = next
    /\ exc' = exc

\* name = psychrolib.<fn>(...): the value is bound, or the library's exception
\* leaves the function
LibCall(at, fn, r, name, next) ==
    /\ pc = at
    /\ libCalls' = [libCalls EXCEPT ![fn] = @ + 1]
    /\ IF r.ok
       THEN loc' = Bind(loc, name, r.val) /\ pc' = next /\ exc' = exc
       ELSE loc' = loc /\ pc' = "except" /\ exc' = [type |-> r.err, site |-> fn]

\* w1 = psychrolib.GetHumRatioFromRelHum(t1, rh1, 101325)
HumRatio1Step ==
    /\ LibCall("hum1", "HumRatio1",
               GetHumRatioFromRelHum(psy_units, loc["t1"], loc["rh1"], ATM_PA),
               "w1", "density")
    /\ UNCHANGED <<caller, env, psy_units, setCalls, invocations, prompted, answers,
                   out, hist>>

\* density = psychrolib.GetMoistAirDensity(t1, w1, 101325)
DensityStep ==
    /\ LibCall("density", "Density1",
               GetMoistAirDensity(psy_units, loc["t1"], loc["w1"], ATM_PA),
               "density", "mass_flow")
    /\ out' = IF pc' = "mass_flow" THEN EmitTo(out, "DEBUG", "density", loc'["density"])
              ELSE out
    /\ UNCHANGED <<caller, env, psy_units, setCalls, invocations, prompted, answers, hist>>

\* mass_flow = flow_m3s * density
MassFlowStep ==
    /\ pc = "mass_flow"
    /\ LET mass_flow == MassFlow(loc["flow_m3s"], loc["density"])
       IN  /\ loc' = Bind(loc, "mass_flow", mass_flow)
           /\ out' = EmitTo(out, "DEBUG", "mass_flow", mass_flow)
    /\ pc' = "enth1"
    /\ UNCHANGED <<caller, env, psy_units, setCalls, libCalls, invocations, prompted,
                   answers, exc, hist>>

\* h1 = psychrolib.GetMoistAirEnthalpy(t1, w1)
Enthalpy1Step ==
    /\ LibCall("enth1", "Enthalpy1",
               GetMoistAirEnthalpy(psy_units, loc["t1"], loc["w1"]), "h1", "hum2")
    /\ UNCHANGED <<caller, env, psy_units, setCalls, invocations, prompted, answers,
                   out, hist>>

\* w2 = psychrolib.GetHumRatioFromRelHum(t2, rh2, 101325)
HumRatio2Step ==
    /\ LibCall("hum2", "HumRatio2",
               GetHumRatioFromRelHum(psy_units, loc["t2"], loc["rh2"], ATM_PA),
               "w2", "enth2")
    /\ UNCHANGED <<caller, env, psy_units, setCalls, invocations, prompted, answers,
                   out, hist>>

\* h2 = psychrolib.GetMoistAirEnthalpy(t2, w2), and the three enthalpy records
Enthalpy2Step ==
    /\ LibCall("enth2", "Enthalpy2",
               GetMoistAirEnthalpy(psy_units, loc["t2"], loc["w2"]), "h2", "load_kw")
    /\ out' = IF pc' = "load_kw"
              THEN EmitTo(EmitTo(EmitTo(out, "DEBUG", "h1", loc["h1"]),
                                 "DEBUG", "h2", loc'["h2"]),
                          "DEBUG", "dh", loc["h1"] - loc'["h2"])
              ELSE out
    /\ UNCHANGED <<caller, env, psy_units, setCalls, invocations, prompted, answers, hist>>

\* cooling_load_kw = mass_flow * (h1 - h2) / 1000
LoadKwStep ==
    /\ pc = "load_kw"
    /\ LET cooling_load_kw == CoolingLoadKw(loc["mass_flow"], loc["h1"], loc["h2"])
       IN  /\ loc' = Bind(loc, "cooling_load_kw", cooling_load_kw)
           /\ out' = EmitTo(out, "DEBUG", "load_kw", cooling_load_kw)
    /\ pc' = "load_btu"
    /\ UNCHANGED <<caller, env, psy_units, setCalls, libCalls, invocations, prompted,
                   answers, exc, hist>>

\* cooling_load_btu = cooling_load_kw * 3412.142
LoadBtuStep ==
    /\ pc = "load_btu"
    /\ loc' = Bind(loc, "cooling_load_btu", CoolingLoadBtu(loc["cooling_load_kw"]))
    /\ pc' = "water"
    /\ UNCHANGED <<caller, env, psy_units, setCalls, libCalls, invocations, prompted,
                   answers, out, exc, hist>>

\* water_removal_kg_hr = mass_flow * (w1 - w2) * 3600
WaterStep ==
    /\ pc = "water"
    /\ LET water == WaterRemovalKgHr(loc["mass_flow"], loc["w1"], loc["w2"])
       IN  /\ loc' = Bind(loc, "water_removal_kg_hr", water)
           /\ out' = EmitTo(out, "DEBUG", "water", water)
    /\ pc' = "return"
    /\ UNCHANGED <<caller, env, psy_units, setCalls, libCalls, invocations, prompted,
                   answers, exc, hist>>

\* return round(cooling_load_btu)
ReturnStep ==
    /\ pc = "return"
    /\ loc' = Bind(loc, "result", PyRound(loc["cooling_load_btu"]))
    /\ pc' = "returned"
    /\ UNCHANGED <<caller, env, psy_units, setCalls, libCalls, invocations, prompted,
                   answers, out, exc, hist>>

CoolingLoad ==
    \/ SetUnitSystemStep \/ FlowStep \/ HumRatio1Step \/ DensityStep \/ MassFlowStep
    \/ Enthalpy1Step \/ HumRatio2Step \/ Enthalpy2Step \/ LoadKwStep \/ LoadBtuStep
    \/ WaterStep \/ ReturnStep

-----------------------------------------------------------------------------
(* A caller that imported the module and invokes calculate_cooling_load    *)
(* several times in one process                                            *)

Outcome(ok) ==
    [flow_cfm |-> loc["flow_cfm"], initial |-> <<loc["t1"], loc["rh1"]>>,
     target |-> <<loc["t2"], loc["rh2"]>>, ok |-> ok,
     flow_m3s |-> IF ok THEN loc["flow_m3s"] ELSE 0,
     density |-> IF ok THEN loc["density"] ELSE 0,
     mass_flow |-> IF ok THEN loc["mass_flow"] ELSE 0,
     dh |-> IF ok THEN loc["h1"] - loc["h2"] ELSE 0,
     load |-> IF ok THEN loc["result"] ELSE 0]

Invoke ==
    /\ pc = "idle"
    /\ invocations < MaxCalls
    /\ \E flow \in LibFlows, a \in LibStates, b \in LibStates :
        Enter(flow, a[1], a[2], b[1], b[2])
    /\ UNCHANGED <<caller, env, psy_units, setCalls, prompted, answers, out, exc, hist>>

\* the invocation returned its load to the caller
Collect ==
    /\ pc = "returned" /\ caller = "lib"
    /\ hist' = Append(hist, Outcome(TRUE))
    /\ pc' = "idle"
    /\ UNCHANGED <<caller, env, loc, psy_units, setCalls, libCalls, invocations,
                   prompted, answers, out, exc>>

\* the invocation raised; the caller handles the exception and goes on
CollectError ==
    /\ pc = "except" /\ caller = "lib"
    /\ hist' = Append(hist, Outcome(FALSE))
    /\ exc' = NoExc
    /\ pc' = "idle"
    /\ UNCHANGED <<caller, env, loc, psy_units, setCalls, libCalls, invocations,
                   prompted, answers, out>>

-----------------------------------------------------------------------------
(* Specifications *)

Next ==
    \/ Start \/ AskLength \/ AskWidth \/ LogArea \/ AskHeight \/ AskAch \/ ComputeCfm
    \/ AskT1 \/ AskRh1 \/ AskT2 \/ AskRh2 \/ MainReport \/ MainCall
    \/ CoolingLoad
    \/ MainLogLoad \/ MainExcept

\* one run of the script
Spec == Init /\ [][Next]_vars

LibNext == Invoke \/ CoolingLoad \/ Collect \/ CollectError

\* one process of a caller of the imported module
LibSpec == LibInit /\ [][LibNext]_vars

-----------------------------------------------------------------------------
(* Properties *)

Returned == "result" \in DOMAIN loc

ValOf(tag) == out[CHOOSE i \in 1..Len(out) : out[i].tag = tag].val

\* C1: for a positive volume and a non-negative ACH the CFM computed by
\* calculate_cfm_from_room is volume * ach / 60 (the grid value nearest to the
\* exact quotient); it is 0 when ach = 0, and 160 for the default room of
\* 2400 ft3 at ACH 4.
C1_CfmIsVolumeAchOver60 ==
    ("cfm" \in DOMAIN env /\ env["volume"] > 0 /\ env["ach"] >= 0) =>
        /\ Abs(60 * env["cfm"] - env["volume"] * env["ach"]) <= 30
        /\ (env["ach"] = 0 => env["cfm"] = 0)
        /\ (env["volume"] = 240000 /\ env["ach"] = 400 => env["cfm"] = 1600000)

C1_Witness ==
    /\ "cfm" \in DOMAIN env
    /\ env["volume"] = 240000 /\ env["ach"] = 400 /\ env["cfm"] = 1600000

\* C2: when the initial state equals the target state (t1 = t2, rh1 = rh2) a
\* finished calculate_cooling_load has h1 = h2 and w1 = w2, returns a load of
\* exactly 0 and computes a water-removal rate of exactly 0.
C2_EqualStatesZeroLoad ==
    (Returned /\ loc["t1"] = loc["t2"] /\ loc["rh1"] = loc["rh2"]) =>
        /\ loc["h1"] = loc["h2"]
        /\ loc["w1"] = loc["w2"]
        /\ loc["result"] = 0
        /\ loc["water_removal_kg_hr"] = 0

C2_Witness ==
    /\ Returned
    /\ loc["t1"] = loc["t2"] /\ loc["rh1"] = loc["rh2"]
    /\ loc["flow_cfm"] > 0 /\ loc["mass_flow"] > 0
    /\ loc["result"] = 0

\* C4 as stated: for a positive flow, h1 > h2 gives a load > 0 and h1 < h2 a
\* load < 0.
C4_StrictSign ==
    (Returned /\ loc["flow_cfm"] > 0) =>
        /\ (loc["h1"] > loc["h2"] => loc["result"] > 0)
        /\ (loc["h1"] < loc["h2"] => loc["result"] < 0)

\* C4: for a positive flow, h1 > h2 gives a load >= 0 and h1 < h2 a load <= 0,
\* returned without an error; the load is 0 exactly when the BTU/hr value is
\* within 0.5 of 0, which a small flow reaches although h1 # h2.
C4_SignUpToRounding ==
    (Returned /\ loc["flow_cfm"] > 0) =>
        /\ (loc["h1"] > loc["h2"] => loc["result"] >= 0 /\ loc["cooling_load_btu"] > 0)
        /\ (loc["h1"] < loc["h2"] => loc["result"] <= 0 /\ loc["cooling_load_btu"] < 0)
        /\ (loc["result"] = 0 <=> Abs(loc["cooling_load_btu"]) <= 500)
        /\ exc = NoExc

C4_Witness ==
    /\ Returned /\ loc["flow_cfm"] > 0
    /\ loc["h1"] > loc["h2"]
    /\ loc["result"] = 0

\* C9: the returned load is cooling_load_kw * 3412.142 rounded to the nearest
\* integer, and the tons main reports are that integer divided by 12000
\* (printed to one decimal), the rounding coming first.
C9_RoundThenTons ==
    /\ Returned =>
        /\ loc["cooling_load_btu"] = MulDiv(loc["cooling_load_kw"], 3412142, 10^6)
        /\ Abs(1000 * loc["result"] - loc["cooling_load_btu"]) <= 500
    /\ pc = "done" =>
        /\ ValOf("load") = loc["result"]
        /\ Abs(12000 * ValOf("tons") - 10 * ValOf("load")) <= 6000

C9_Witness ==
    /\ pc = "done"
    /\ loc["cooling_load_btu"] % 1000 # 0
    /\ ValOf("load") # 0 /\ ValOf("tons") # 0

\* the statements of calculate_cooling_load that call the property library
LibSites == {"hum1", "density", "enth1", "hum2", "enth2"}

\* C6: the unit system is SI whenever a property function (humidity ratio,
\* density, enthalpy) is about to be called or has been called.
C6_UnitsAreSIAtEveryLibraryCall ==
    (pc \in LibSites \/ \E f \in LibFns : libCalls[f] > 0) => psy_units = "SI"

C6_Witness ==
    /\ libCalls["HumRatio1"] = 1 /\ libCalls["Enthalpy2"] = 1
    /\ psy_units = "SI" /\ setCalls = 1

\* the local each library call binds, and the locals bound from that call on
ResultOf ==
    [f \in LibFns |->
        CASE f = "HumRatio1" -> "w1" [] f = "Density1" -> "density"
          [] f = "Enthalpy1" -> "h1" [] f = "HumRatio2" -> "w2" [] f = "Enthalpy2" -> "h2"]

BoundFrom ==
    [f \in LibFns |->
        CASE f = "HumRatio1" -> {"w1", "density", "mass_flow", "h1", "w2", "h2"}
          [] f = "Density1"  -> {"density", "mass_flow", "h1", "w2", "h2"}
          [] f = "Enthalpy1" -> {"h1", "w2", "h2"}
          [] f = "HumRatio2" -> {"w2", "h2"}
          [] f = "Enthalpy2" -> {"h2"}]

AfterEnthalpies == {"cooling_load_kw", "cooling_load_btu", "water_removal_kg_hr", "result"}

\* the relative humidity the library rejects: outside [0, 1]
RejectedRH(rh) == rh < 0 \/ rh > 100

\* C7: a failure of a property-library call leaves calculate_cooling_load at
\* once and unchanged: every property function is called at most once per
\* state per invocation, the failing call is the last statement that ran (no
\* later local is bound, no later library call is made, no value is
\* returned), a rejected state is never recovered from, and main logs the
\* error and ends with that same exception.
C7_LibraryFailurePropagates ==
    /\ \A f \in LibFns : libCalls[f] <= 1
    /\ (libCalls["HumRatio1"] = 1 /\ RejectedRH(loc["rh1"])) => exc.site = "HumRatio1"
    /\ (libCalls["HumRatio2"] = 1 /\ RejectedRH(loc["rh2"])) => exc.site = "HumRatio2"
    /\ exc.site \in LibFns =>
        /\ pc \in {"except", "raised"}
        /\ exc.type = "ValueError"
        /\ libCalls[exc.site] = 1
        /\ DOMAIN loc \cap (BoundFrom[exc.site] \cup AfterEnthalpies) = {}
        /\ \A f \in LibFns : ResultOf[f] \in BoundFrom[exc.site] \ {ResultOf[exc.site]}
                                => libCalls[f] = 0
        /\ "load" \notin DOMAIN env
        /\ pc = "raised" =>
            /\ out[Len(out)].level = "ERROR"
            /\ out[Len(out)].msg = exc.site
    /\ pc = "raised" => exc # NoExc

C7_Witness ==
    /\ pc = "raised"
    /\ exc = [type |-> "ValueError", site |-> "HumRatio2"]
    /\ libCalls["HumRatio1"] = 1 /\ libCalls["Enthalpy2"] = 0

FinalTags == {"volume", "ach", "cfm", "load", "tons"}

DiagTags == {"flow_m3s", "density", "mass_flow", "h1", "h2", "dh", "load_kw", "water"}

\* C8 as stated: a run of main that ends normally has emitted all five final
\* results, and a run that ends with an exception has emitted none of them;
\* when the library rejected a state, no diagnostic value either.
C8_AllOrNothing ==
    /\ pc = "done" => FinalTags \subseteq Tags(out)
    /\ pc = "raised" => FinalTags \cap Tags(out) = {}
    /\ (pc = "raised" /\ exc.site \in LibFns) => DiagTags \cap Tags(out) = {}

\* C8: the total load and the tons are emitted only by a run that fully
\* succeeds, which emits all five final results; a run that fails at a prompt
\* emits no final result and no diagnostic; a run in which the library
\* rejects a state has already emitted room volume, ACH, CFM and the
\* diagnostics computed before the failing call, and nothing computed after.
C8_LoadAndTonsOnlyOnSuccess ==
    /\ ("load" \in Tags(out) \/ "tons" \in Tags(out)) => pc = "done"
    /\ pc = "done" => FinalTags \subseteq Tags(out) /\ exc = NoExc
    /\ (pc = "raised" /\ exc.site = "float") =>
            (FinalTags \cup DiagTags) \cap Tags(out) = {}
    /\ (pc = "raised" /\ exc.site \in LibFns) =>
        /\ {"volume", "ach", "cfm", "flow_m3s"} \subseteq Tags(out)
        /\ {"load", "tons", "h1", "h2", "dh", "load_kw", "water"} \cap Tags(out) = {}
        /\ {"density", "mass_flow"} \subseteq Tags(out) <=> exc.site # "HumRatio1"

C8_Witness ==
    /\ pc = "raised" /\ exc.site = "HumRatio2"
    /\ {"volume", "ach", "cfm", "flow_m3s", "density", "mass_flow"} \subseteq Tags(out)
    /\ "load" \notin Tags(out)

NonNumeric(i) == answers[i] # <<>> /\ ~ParseFloat(answers[i]).ok

\* a number outside the documented domain of its prompt: a dimension <= 0, an
\* ACH < 0, a temperature outside [-100, 200] degC, a humidity outside [0, 1]
OutOfDomain(i) ==
    /\ answers[i] # <<>> /\ ParseFloat(answers[i]).ok
    /\ LET v == ParseFloat(answers[i]).val
       IN  CASE i \in {1, 2, 3} -> v <= 0
             [] i = 4 -> v < 0
             [] i \in {5, 7} -> v < -10000 \/ v > 20000
             [] i \in {6, 8} -> v < 0 \/ v > 100

\* the documented defaults: 20, 15, 8, 4, 43, 0.85, 25, 0.55
DocumentedDefault == <<2000, 1500, 800, 400, 4300, 85, 2500, 55>>

PromptsInOrderWithDefaults ==
    /\ Len(prompted) = Len(answers)
    /\ prompted = SubSeq(PromptOrder, 1, Len(prompted))
    /\ \A i \in 1..Len(answers) :
        answers[i] = <<>> =>
            PromptOrder[i] \in DOMAIN env /\ env[PromptOrder[i]] = DocumentedDefault[i]

StoppedAtPrompt(i) ==
    /\ Len(prompted) = i
    /\ invocations = 0
    /\ pc \in {"except", "raised"}
    /\ exc = [type |-> "ValueError", site |-> "float"]
    /\ PromptOrder[i] \notin DOMAIN env
    /\ pc = "raised" => out[Len(out)].level = "ERROR"

\* C10 as stated: the prompts come in the fixed order with the documented
\* defaults, and a non-numeric or out-of-domain answer stops the run at that
\* prompt.
C10_InvalidStopsAtPrompt ==
    /\ PromptsInOrderWithDefaults
    /\ \A i \in 1..Len(answers) : (NonNumeric(i) \/ OutOfDomain(i)) => StoppedAtPrompt(i)

\* C10: the prompts come in the fixed order with the documented defaults; a
\* non-numeric answer stops the run at that prompt (no later prompt, no call
\* of calculate_cooling_load, the error logged and re-raised); every numeric
\* answer, in its domain or not, is accepted and stored, and once all eight
\* are numeric calculate_cooling_load is called with them.
C10_NonNumericStopsAtPrompt ==
    /\ PromptsInOrderWithDefaults
    /\ \A i \in 1..Len(answers) :
        /\ NonNumeric(i) => StoppedAtPrompt(i)
        /\ ~NonNumeric(i) =>
            /\ PromptOrder[i] \in DOMAIN env
            /\ answers[i] # <<>> => env[PromptOrder[i]] = ParseFloat(answers[i]).val
    /\ invocations = 1 <=>
        (Len(answers) = 8 /\ (\A i \in 1..8 : ~NonNumeric(i)) /\ pc \notin {"report", "call"})

C10_Witness ==
    /\ Len(answers) = 5 /\ NonNumeric(5)
    /\ answers[1] = <<>> /\ env["length"] = 2000
    /\ pc = "raised" /\ invocations = 0

\* finished invocations i and j with the same flow and the states swapped
Swapped(i, j) ==
    /\ hist[i].ok /\ hist[j].ok
    /\ hist[i].flow_cfm = hist[j].flow_cfm
    /\ hist[i].initial = hist[j].target
    /\ hist[i].target = hist[j].initial

====
